---- MODULE Spec2Model ----
(***************************************************************************)
(* Model of the Scoundrel rule engine (dungeon_and_cards/src/scoundrel.rs) *)
(* together with the card, rank, suit and deck types it is built on.       *)
(***************************************************************************)
EXTENDS Integers, Sequences, FiniteSets, TLC

(* ---------------------------------------------------------------- bounds *)

\* Number of play_card calls explored in one behaviour of the whole game.
MaxPlays == 2

\* Number of play_card calls explored in one behaviour of combat alone.
MaxCombatPlays == 3

\* Number of operations explored in one behaviour of the deck alone.
MaxDeckOps == 3

\* Largest number of cards asked of one draw of the deck alone.
MaxDraw == 4

(* ------------------------------------------------------------- constants *)

MAX_LIFE_POINTS == 20
TOTAL_ROOMS == 12
U8 == 256

(* ------------------------------------------------------ suit, rank, card *)

\* Suit, in the declaration order Suit::iter() yields.
Suit == <<"Spades", "Diamonds", "Clubs", "Hearts">>

\* Rank discriminants Ace = 1 .. King = 13, in Rank::iter() order.
Rank == [i \in 1..13 |-> i]

Card(suit, rank) == [suit |-> suit, rank |-> rank]

AllCards == {Card(Suit[s], Rank[r]) : s \in 1..4, r \in 1..13}

\* impl Sub<u8> for Rank: saturating subtraction.
RankSubU8(rank, rhs) == IF rank >= rhs THEN rank - rhs ELSE 0

\* impl Add<Rank> for u8 (through Add<u8> for Rank): plain u8 addition.
U8AddRank(lhs, rank) == (rank + lhs) % U8

\* impl SubAssign<Rank> for u8, and -= between two u8: plain u8
\* subtraction, which wraps below 0 in a build without overflow checks.
U8SubAssign(lhs, rhs) == (lhs - rhs) % U8

(* ------------------------------------------------------------------ deck *)

RECURSIVE FlatMap(_, _)
\* suits.flat_map(|suit| ranks.map(|rank| Card{suit, rank})) from suit s on.
FlatMap(s, banned) ==
    IF s > Len(Suit) THEN <<>>
    ELSE SelectSeq([r \in 1..13 |-> Card(Suit[s], Rank[r])],
                   LAMBDA card : card \notin banned)
         \o FlatMap(s + 1, banned)

\* Deck::new without its filter: every card of the 52 is kept.
DeckNewUnfiltered(banned) == FlatMap(1, {})

\* Deck::new: the 52 cards in suit-major order without the banned ones.
DeckNew(banned) == FlatMap(1, banned)

\* Deck::draw giving what is left when too many cards are asked for.
DrawSaturating(cards, n) ==
    IF n = 0 THEN [panic |-> FALSE, drawn |-> <<>>, cards |-> cards]
    ELSE IF n > Len(cards) THEN [panic |-> FALSE, drawn |-> cards, cards |-> <<>>]
    ELSE [panic |-> FALSE,
          drawn |-> SubSeq(cards, 1, n),
          cards |-> SubSeq(cards, n + 1, Len(cards))]

\* Deck::draw copying the top cards: they are returned and stay in the deck.
DrawCopies(cards, n) ==
    IF n = 0 THEN [panic |-> FALSE, drawn |-> <<>>, cards |-> cards]
    ELSE IF n > Len(cards) THEN [panic |-> TRUE, drawn |-> <<>>, cards |-> cards]
    ELSE [panic |-> FALSE,
          drawn |-> SubSeq(cards, 1, n),
          cards |-> cards]

\* Deck::draw draining the last n cards: the draw is from the bottom.
DrawFromBottom(cards, n) ==
    IF n = 0 THEN [panic |-> FALSE, drawn |-> <<>>, cards |-> cards]
    ELSE IF n > Len(cards) THEN [panic |-> TRUE, drawn |-> <<>>, cards |-> cards]
    ELSE [panic |-> FALSE,
          drawn |-> SubSeq(cards, Len(cards) - n + 1, Len(cards)),
          cards |-> SubSeq(cards, 1, Len(cards) - n)]

\* Deck::draw draining ..n - 1: the last card asked for stays in the deck.
DrawShort(cards, n) ==
    IF n = 0 THEN [panic |-> FALSE, drawn |-> <<>>, cards |-> cards]
    ELSE IF n > Len(cards) THEN [panic |-> TRUE, drawn |-> <<>>, cards |-> cards]
    ELSE [panic |-> FALSE,
          drawn |-> SubSeq(cards, 1, n - 1),
          cards |-> SubSeq(cards, n, Len(cards))]

\* Deck::draw: the first n cards leave the deck; too many is a panic.
Draw(cards, n) ==
    IF n = 0 THEN [panic |-> FALSE, drawn |-> <<>>, cards |-> cards]
    ELSE IF n > Len(cards) THEN [panic |-> TRUE, drawn |-> <<>>, cards |-> cards]
    ELSE [panic |-> FALSE,
          drawn |-> SubSeq(cards, 1, n),
          cards |-> SubSeq(cards, n + 1, Len(cards))]

\* Deck::bottom(&mut hand): the hand goes under the deck, in hand order.
Bottom(cards, hand) == cards \o hand

(* -------------------------------------------------------------- scoundrel *)

BANNED_CARDS ==
    { Card("Diamonds", 1), Card("Diamonds", 11), Card("Diamonds", 12),
      Card("Diamonds", 13), Card("Hearts", 1), Card("Hearts", 11),
      Card("Hearts", 12), Card("Hearts", 13) }

VARIABLES
    deck,             \* Scoundrel.deck.cards, top first
    life_points,      \* Scoundrel.life_points (u8)
    weapon_equipped,  \* Option<Weapon>: <<>> is None, <<w>> is Some(w)
    room_visited,     \* Scoundrel.room_visited
    room,             \* Scoundrel.room, the hand
    has_run_away,     \* Scoundrel.has_run_away
    op,               \* the last operation called
    arg,              \* the card the last play_card was given, else NoCard
    ret,              \* what the last operation returned
    life_before,      \* life_points when the last operation was called
    weapon_before,    \* weapon_equipped when the last operation was called
    entered,          \* number of enter_room calls that returned InGame
    retreats,         \* number of run_away calls that returned Ok
    plays,            \* number of play_card calls so far
    banned,           \* Deck.banned_cards: {} is None or Some of no card
    count,            \* the number of cards the last Deck::draw was asked for
    deck_ops          \* number of operations called on the deck alone

vars == <<deck, life_points, weapon_equipped, room_visited, room,
          has_run_away, op, arg, ret, life_before, weapon_before, entered,
          retreats, plays, banned, count, deck_ops>>

\* The argument recorded for the operations that take no card.
NoCard == [suit |-> "None", rank |-> 0]

(* ---------------------------------------------------------------- weapon *)

\* Weapon::new taking over the history of the weapon it replaces.
WeaponNewMerged(card) ==
    [weapon |-> card,
     defeated_monsters |-> IF Len(weapon_equipped) = 1
                           THEN weapon_equipped[1].defeated_monsters
                           ELSE <<>>]

\* Weapon::new
WeaponNew(card) == [weapon |-> card, defeated_monsters |-> <<>>]

\* Weapon::add_defeated_monster
AddDefeatedMonster(weapon, monster) ==
    [weapon EXCEPT !.defeated_monsters = Append(@, monster)]

(* -------------------------------------------------------------- new game *)

\* Scoundrel::new
Init ==
    /\ deck = DeckNew(BANNED_CARDS)
    /\ life_points = MAX_LIFE_POINTS
    /\ weapon_equipped = <<>>
    /\ room_visited = 0
    /\ room = <<>>
    /\ has_run_away = FALSE
    /\ op = "new"
    /\ arg = NoCard
    /\ ret = "Game"
    /\ life_before = MAX_LIFE_POINTS
    /\ weapon_before = <<>>
    /\ entered = 0
    /\ retreats = 0
    /\ plays = 0
    /\ banned = BANNED_CARDS
    /\ count = 0
    /\ deck_ops = 0

\* A panic unwinds out of the game: nothing is called after it.
Running == ret # "Panic"

\* enter_room's first test, off by one: a 13th room is entered.
AllRoomsVisitedLate(visited) == visited > TOTAL_ROOMS

\* enter_room's first test: no room is left to visit.
AllRoomsVisited(visited) == visited >= TOTAL_ROOMS

\* enter_room with an empty last arm for todo!(): a hand of 2, 3 or 4 cards
\* is entered with, and nothing is drawn.
EnterRoomLenient ==
    /\ Running
    /\ op' = "enter_room"
    /\ arg' = NoCard
    /\ life_before' = life_points
    /\ weapon_before' = weapon_equipped
    /\ UNCHANGED <<life_points, weapon_equipped, has_run_away, retreats,
                   plays, banned, deck_ops>>
    /\ IF AllRoomsVisited(room_visited)
       THEN /\ ret' = "Win"
            /\ UNCHANGED <<deck, room, room_visited, count>>
       ELSE /\ room_visited' = room_visited + 1
            /\ IF Len(room) \in {0, 1}
               THEN LET n == IF Len(room) = 0 THEN 4 ELSE 3
                        d == Draw(deck, n)
                    IN /\ deck' = d.cards
                       /\ room' = room \o d.drawn
                       /\ count' = n
                       /\ ret' = IF d.panic THEN "Panic" ELSE "InGame"
               ELSE /\ ret' = "InGame"
                    /\ UNCHANGED <<deck, room, count>>
    /\ entered' = IF ret' = "InGame" THEN entered + 1 ELSE entered

\* Scoundrel::enter_room
EnterRoom ==
    /\ Running
    /\ op' = "enter_room"
    /\ arg' = NoCard
    /\ life_before' = life_points
    /\ weapon_before' = weapon_equipped
    /\ UNCHANGED <<life_points, weapon_equipped, has_run_away, retreats,
                   plays, banned, deck_ops>>
    /\ IF AllRoomsVisited(room_visited)
       THEN /\ ret' = "Win"
            /\ UNCHANGED <<deck, room, room_visited, count>>
       ELSE /\ room_visited' = room_visited + 1
            /\ IF Len(room) \in {0, 1}
               THEN LET n == IF Len(room) = 0 THEN 4 ELSE 3
                        d == Draw(deck, n)
                    IN /\ deck' = d.cards
                       /\ room' = room \o d.drawn
                       /\ count' = n
                       /\ ret' = IF d.panic THEN "Panic" ELSE "InGame"
               ELSE /\ ret' = "Panic"
                    /\ UNCHANGED <<deck, room, count>>
    /\ entered' = IF ret' = "InGame" THEN entered + 1 ELSE entered

\* run_away's test of the hand, as "at most 4 cards": an empty hand passes.
IsNewRoomAtMost(hand) == Len(hand) <= 4

\* run_away's test of the hand: a new room is a hand of 4 cards.
IsNewRoom(hand) == Len(hand) = 4

\* run_away raising has_run_away on entry, before any of its tests.
RunAwayFlagFirst ==
    /\ Running
    /\ op' = "run_away"
    /\ arg' = NoCard
    /\ life_before' = life_points
    /\ weapon_before' = weapon_equipped
    /\ has_run_away' = TRUE
    /\ UNCHANGED <<life_points, weapon_equipped, room_visited, entered, plays,
                   banned, count, deck_ops>>
    /\ IF has_run_away
       THEN /\ ret' = "AlreadyRanAway"
            /\ UNCHANGED <<deck, room>>
       ELSE IF IsNewRoom(room)
            THEN /\ deck' = Bottom(deck, room)
                 /\ room' = <<>>
                 /\ ret' = "Ok"
            ELSE /\ ret' = "RoomInProgress"
                 /\ UNCHANGED <<deck, room>>
    /\ retreats' = IF ret' = "Ok" THEN retreats + 1 ELSE retreats

\* run_away clearing the hand for deck.bottom(&mut self.room): the room
\* retreated from is gone and the deck gets nothing back.
RunAwayDiscards ==
    /\ Running
    /\ op' = "run_away"
    /\ arg' = NoCard
    /\ life_before' = life_points
    /\ weapon_before' = weapon_equipped
    /\ UNCHANGED <<life_points, weapon_equipped, room_visited, has_run_away,
                   entered, plays, banned, count, deck_ops>>
    /\ IF has_run_away
       THEN /\ ret' = "AlreadyRanAway"
            /\ UNCHANGED <<deck, room>>
       ELSE IF IsNewRoom(room)
            THEN /\ deck' = deck
                 /\ room' = <<>>
                 /\ ret' = "Ok"
            ELSE /\ ret' = "RoomInProgress"
                 /\ UNCHANGED <<deck, room>>
    /\ retreats' = IF ret' = "Ok" THEN retreats + 1 ELSE retreats

\* Scoundrel::run_away
RunAway ==
    /\ Running
    /\ op' = "run_away"
    /\ arg' = NoCard
    /\ life_before' = life_points
    /\ weapon_before' = weapon_equipped
    /\ UNCHANGED <<life_points, weapon_equipped, room_visited, has_run_away,
                   entered, plays, banned, count, deck_ops>>
    /\ IF has_run_away
       THEN /\ ret' = "AlreadyRanAway"
            /\ UNCHANGED <<deck, room>>
       ELSE IF IsNewRoom(room)
            THEN /\ deck' = Bottom(deck, room)
                 /\ room' = <<>>
                 /\ ret' = "Ok"
            ELSE /\ ret' = "RoomInProgress"
                 /\ UNCHANGED <<deck, room>>
    /\ retreats' = IF ret' = "Ok" THEN retreats + 1 ELSE retreats

\* fight_barehanded with a strict test: a hit equal to the life left is
\* survived with 0 life points.
FightBarehandedStrict(life, monster) ==
    IF monster.rank > life
    THEN [life_points |-> 0, state |-> "Lose"]
    ELSE [life_points |-> U8SubAssign(life, monster.rank), state |-> "InGame"]

\* fight_barehanded subtracting before it tests: the hit is taken from
\* life_points whatever its size, and the game is lost when 0 is left.
FightBarehandedSubtractFirst(life, monster) ==
    IF U8SubAssign(life, monster.rank) = 0
    THEN [life_points |-> 0, state |-> "Lose"]
    ELSE [life_points |-> U8SubAssign(life, monster.rank), state |-> "InGame"]

\* Scoundrel::fight_barehanded
FightBarehanded(life, monster) ==
    IF monster.rank >= life
    THEN [life_points |-> 0, state |-> "Lose"]
    ELSE [life_points |-> U8SubAssign(life, monster.rank), state |-> "InGame"]

\* can_slay_with_weapon with >= : a monster as strong as the last one slain
\* can be slain too.
CanSlayWithWeaponOrEqual(monster, weapon) ==
    \/ Len(weapon.defeated_monsters) = 0
    \/ weapon.defeated_monsters[Len(weapon.defeated_monsters)].rank
         >= monster.rank

\* Scoundrel::can_slay_with_weapon
CanSlayWithWeapon(monster, weapon) ==
    \/ Len(weapon.defeated_monsters) = 0
    \/ weapon.defeated_monsters[Len(weapon.defeated_monsters)].rank
         > monster.rank

\* calculate_attack_power with its operands swapped: weapon minus monster.
CalculateAttackPowerSwapped(monster, weapon) ==
    RankSubU8(weapon.weapon.rank, monster.rank)

\* Scoundrel::calculate_attack_power
CalculateAttackPower(monster, weapon) ==
    LET diff == RankSubU8(monster.rank, weapon.weapon.rank)
    IN IF diff >= 0 THEN diff ELSE 0

\* fight_with_weapon without its gate: the weapon is used on every monster.
FightWithWeaponNoGate(life, monster, weapon) ==
    LET attack_power == CalculateAttackPower(monster, weapon)
        updated == AddDefeatedMonster(weapon, monster)
    IN IF attack_power >= life
       THEN [life_points |-> 0, state |-> "Lose", weapon |-> updated]
       ELSE [life_points |-> U8SubAssign(life, attack_power),
             state |-> "InGame",
             weapon |-> updated]

\* fight_with_weapon recording the monster before the gate: the barehanded
\* fallback returns a weapon that has the monster in its history.
FightWithWeaponRecordsFirst(life, monster, weapon) ==
    LET updated == AddDefeatedMonster(weapon, monster)
    IN IF CanSlayWithWeapon(monster, weapon)
       THEN LET attack_power == CalculateAttackPower(monster, weapon)
            IN IF attack_power >= life
               THEN [life_points |-> 0, state |-> "Lose", weapon |-> updated]
               ELSE [life_points |-> U8SubAssign(life, attack_power),
                     state |-> "InGame",
                     weapon |-> updated]
       ELSE LET r == FightBarehanded(life, monster)
            IN [life_points |-> r.life_points, state |-> r.state,
                weapon |-> updated]

\* fight_with_weapon recording the monster after the lose test: a lethal
\* fight returns before the monster is added.
FightWithWeaponRecordsSurvived(life, monster, weapon) ==
    IF CanSlayWithWeapon(monster, weapon)
    THEN LET attack_power == CalculateAttackPower(monster, weapon)
             updated == AddDefeatedMonster(weapon, monster)
         IN IF attack_power >= life
            THEN [life_points |-> 0, state |-> "Lose", weapon |-> weapon]
            ELSE [life_points |-> U8SubAssign(life, attack_power),
                  state |-> "InGame",
                  weapon |-> updated]
    ELSE LET r == FightBarehanded(life, monster)
         IN [life_points |-> r.life_points, state |-> r.state,
             weapon |-> weapon]

\* Scoundrel::fight_with_weapon
FightWithWeapon(life, monster, weapon) ==
    IF CanSlayWithWeapon(monster, weapon)
    THEN LET attack_power == CalculateAttackPower(monster, weapon)
             updated == AddDefeatedMonster(weapon, monster)
         IN IF attack_power >= life
            THEN [life_points |-> 0, state |-> "Lose", weapon |-> updated]
            ELSE [life_points |-> U8SubAssign(life, attack_power),
                  state |-> "InGame",
                  weapon |-> updated]
    ELSE LET r == FightBarehanded(life, monster)
         IN [life_points |-> r.life_points, state |-> r.state,
             weapon |-> weapon]

\* handle_combat dropping the state of the fight: it answers InGame.
HandleCombatInGame(life, equipped, card) ==
    IF Len(equipped) = 1
    THEN LET r == FightWithWeapon(life, card, equipped[1])
         IN [life_points |-> r.life_points, state |-> "InGame",
             weapon_equipped |-> <<r.weapon>>]
    ELSE LET r == FightBarehanded(life, card)
         IN [life_points |-> r.life_points, state |-> "InGame",
             weapon_equipped |-> <<>>]

\* handle_combat without the re-equip after take(): the weapon is gone
\* after the fight.
HandleCombatDropsWeapon(life, equipped, card) ==
    IF Len(equipped) = 1
    THEN LET r == FightWithWeapon(life, card, equipped[1])
         IN [life_points |-> r.life_points, state |-> r.state,
             weapon_equipped |-> <<>>]
    ELSE LET r == FightBarehanded(life, card)
         IN [life_points |-> r.life_points, state |-> r.state,
             weapon_equipped |-> <<>>]

\* Scoundrel::handle_combat
HandleCombat(life, equipped, card) ==
    IF Len(equipped) = 1
    THEN LET r == FightWithWeapon(life, card, equipped[1])
         IN [life_points |-> r.life_points, state |-> r.state,
             weapon_equipped |-> <<r.weapon>>]
    ELSE LET r == FightBarehanded(life, card)
         IN [life_points |-> r.life_points, state |-> r.state,
             weapon_equipped |-> <<>>]

\* The Hearts arm without .min(20): the sum is kept as it is.
HealUnclamped(life, rank) == U8AddRank(life, rank)

\* The Hearts arm with .max(20) for .min(20).
HealMax(life, rank) ==
    IF U8AddRank(life, rank) >= 20 THEN U8AddRank(life, rank) ELSE 20

\* Hearts arm of play_card: (life_points + rank).min(20)
Heal(life, rank) ==
    IF U8AddRank(life, rank) <= 20 THEN U8AddRank(life, rank) ELSE 20

\* play_card refusing a card that is not in the hand, as a panic.
PlayCardChecked(card) ==
    /\ Running
    /\ plays' = plays + 1
    /\ op' = "play_card"
    /\ arg' = card
    /\ life_before' = life_points
    /\ weapon_before' = weapon_equipped
    /\ UNCHANGED <<deck, room, room_visited, has_run_away, entered, retreats,
                   banned, count, deck_ops>>
    /\ IF \A i \in 1..Len(room) : room[i] # card
       THEN /\ ret' = "Panic"
            /\ UNCHANGED <<life_points, weapon_equipped>>
       ELSE IF card.suit \in {"Spades", "Clubs"}
       THEN LET r == HandleCombat(life_points, weapon_equipped, card)
            IN /\ life_points' = r.life_points
               /\ weapon_equipped' = r.weapon_equipped
               /\ ret' = r.state
       ELSE IF card.suit = "Diamonds"
       THEN /\ weapon_equipped' = <<WeaponNew(card)>>
            /\ ret' = "InGame"
            /\ UNCHANGED life_points
       ELSE /\ life_points' = Heal(life_points, card.rank)
            /\ ret' = "InGame"
            /\ UNCHANGED weapon_equipped

\* Scoundrel::play_card
PlayCard(card) ==
    /\ Running
    /\ plays' = plays + 1
    /\ op' = "play_card"
    /\ arg' = card
    /\ life_before' = life_points
    /\ weapon_before' = weapon_equipped
    /\ UNCHANGED <<deck, room, room_visited, has_run_away, entered, retreats,
                   banned, count, deck_ops>>
    /\ IF card.suit \in {"Spades", "Clubs"}
       THEN LET r == HandleCombat(life_points, weapon_equipped, card)
            IN /\ life_points' = r.life_points
               /\ weapon_equipped' = r.weapon_equipped
               /\ ret' = r.state
       ELSE IF card.suit = "Diamonds"
       THEN /\ weapon_equipped' = <<WeaponNew(card)>>
            /\ ret' = "InGame"
            /\ UNCHANGED life_points
       ELSE /\ life_points' = Heal(life_points, card.rank)
            /\ ret' = "InGame"
            /\ UNCHANGED weapon_equipped

\* The caller plays any card: play_card does not look at the hand.
Play == plays < MaxPlays /\ \E card \in AllCards : PlayCard(card)

Next == EnterRoom \/ RunAway \/ Play

\* The whole game: rooms, retreats and cards played in any interleaving.
Spec == Init /\ [][Next]_vars

\* Combat alone: play_card neither reads nor writes the deck, the hand or
\* the room counter, so its effect on life points and weapon is explored
\* to a greater depth from a new game without the room operations.
PlayCombat == plays < MaxCombatPlays /\ \E card \in AllCards : PlayCard(card)

NextCombat == PlayCombat

SpecCombat == Init /\ [][NextCombat]_vars

(* ------------------------------------------------------- the deck alone *)

\* The banned sets a deck is built with: none, the two cards of the test
\* new_deck_with_2_banned_cards_has_50_cards, the list of Scoundrel::new,
\* and every card but the four aces, which leaves a deck a few draws empty.
BannedSets ==
    { {},
      {Card("Clubs", 8), Card("Diamonds", 10)},
      BANNED_CARDS,
      {c \in AllCards : c.rank > 1} }

\* Deck::builder().ban_cards(b).build(), in the hands of a caller that
\* holds no card yet.
InitDeck ==
    /\ banned \in BannedSets
    /\ deck = DeckNew(banned)
    /\ room = <<>>
    /\ op = "build"
    /\ arg = NoCard
    /\ ret = "Deck"
    /\ count = 0
    /\ deck_ops = 0
    /\ life_points = MAX_LIFE_POINTS
    /\ weapon_equipped = <<>>
    /\ room_visited = 0
    /\ has_run_away = FALSE
    /\ life_before = MAX_LIFE_POINTS
    /\ weapon_before = <<>>
    /\ entered = 0
    /\ retreats = 0
    /\ plays = 0

\* What no operation of the deck touches.
DeckFrame ==
    UNCHANGED <<life_points, weapon_equipped, room_visited, has_run_away, arg,
                life_before, weapon_before, entered, retreats, plays, banned>>

\* let room = deck.draw(n): the caller holds what the draw returned.
DeckDraw(n) ==
    /\ Running
    /\ deck_ops' = deck_ops + 1
    /\ op' = "draw"
    /\ count' = n
    /\ LET d == Draw(deck, n)
       IN /\ deck' = d.cards
          /\ room' = IF d.panic THEN room ELSE d.drawn
          /\ ret' = IF d.panic THEN "Panic" ELSE "Cards"
    /\ DeckFrame

\* Deck::reset on a deck that has forgotten its banned set: all 52 cards.
DeckResetFull ==
    /\ Running
    /\ deck_ops' = deck_ops + 1
    /\ op' = "reset"
    /\ ret' = "Unit"
    /\ deck' = DeckNew({})
    /\ UNCHANGED <<room, count>>
    /\ DeckFrame

\* Deck::reset: *self = Self::new(self.banned_cards.clone())
DeckReset ==
    /\ Running
    /\ deck_ops' = deck_ops + 1
    /\ op' = "reset"
    /\ ret' = "Unit"
    /\ deck' = DeckNew(banned)
    /\ UNCHANGED <<room, count>>
    /\ DeckFrame

\* let mut cards = deck.draw(n); deck.bottom(&mut cards): the cards drawn
\* go back under the deck, as enter_room and run_away do with a room.
DeckDrawBottom(n) ==
    /\ Running
    /\ deck_ops' = deck_ops + 1
    /\ op' = "draw_bottom"
    /\ count' = n
    /\ LET d == Draw(deck, n)
       IN /\ deck' = IF d.panic THEN deck ELSE Bottom(d.cards, d.drawn)
          /\ ret' = IF d.panic THEN "Panic" ELSE "Unit"
    /\ UNCHANGED room
    /\ DeckFrame

DrawSome == deck_ops < MaxDeckOps /\ \E n \in 0..MaxDraw : DeckDraw(n)

ResetDeck == deck_ops < MaxDeckOps /\ DeckReset

DrawAndReturn ==
    deck_ops < MaxDeckOps /\ \E n \in 0..MaxDraw : DeckDrawBottom(n)

NextDeck == DrawSome \/ ResetDeck \/ DrawAndReturn

\* The deck alone: built with one of the banned sets, then drawn from,
\* reset and given cards back in any order.
SpecDeck == InitDeck /\ [][NextDeck]_vars

(* ---------------------------------------------------------------- claims *)

\* A card of the list Scoundrel::new bans.
IsBannedCard(c) ==
    c.suit \in {"Diamonds", "Hearts"} /\ c.rank \in {1, 11, 12, 13}

IsMonster(c) == c.suit \in {"Spades", "Clubs"}

\* The last operation was play_card on a monster card.
FoughtMonster == op = "play_card" /\ IsMonster(arg)

\* The history lets a monster of rank m be slain: it is empty or ends with
\* a monster of strictly greater rank.
HistoryAllows(history, m) ==
    history = <<>> \/ history[Len(history)].rank > m

\* C1: a new game has 20 life points, no weapon, no room visited, an empty
\* hand, has_run_away false and a deck of 44 cards; no banned card is in
\* the deck or is ever drawn into the hand.
C1_FreshGame ==
    /\ op = "new" =>
         /\ life_points = 20
         /\ weapon_equipped = <<>>
         /\ room_visited = 0
         /\ room = <<>>
         /\ has_run_away = FALSE
         /\ Len(deck) = 44
    /\ \A i \in 1..Len(deck) : ~IsBannedCard(deck[i])
    /\ \A i \in 1..Len(room) : ~IsBannedCard(room[i])

\* The twelfth room has been drawn: 48 draws, so every card of the deck has
\* been in the hand.
C1_Witness ==
    /\ op = "enter_room" /\ ret = "InGame"
    /\ room_visited = 12 /\ Len(room) = 4
    /\ \A i \in 1..4 : room[i].suit = "Spades"

\* C2: once play_card has returned Lose or enter_room has returned Win, the
\* next enter_room or play_card does not return InGame and changes neither
\* life_points, the weapon, the hand nor room_visited.
C2_Terminal ==
    [][(ret \in {"Win", "Lose"} /\ op' \in {"enter_room", "play_card"})
         => /\ ret' # "InGame"
            /\ UNCHANGED <<life_points, weapon_equipped, room, room_visited>>
      ]_vars

\* C3: enter_room called with room_visited = 12 returns Win and leaves
\* life_points, the deck, the hand, the weapon and room_visited as they were.
C3_WinChangesNothing ==
    [][(op' = "enter_room" /\ room_visited = 12)
         => /\ ret' = "Win"
            /\ UNCHANGED <<life_points, deck, room, weapon_equipped,
                           room_visited, has_run_away>>
      ]_vars

\* enter_room has returned Win twelve rooms in, over a hand of 4 cards.
C3_Witness ==
    /\ op = "enter_room" /\ ret = "Win"
    /\ room_visited = 12 /\ Len(room) = 4 /\ Len(deck) = 40

\* C4: room_visited stays within 0..12; an enter_room that returns InGame
\* adds exactly 1 to it; play_card, run_away and an enter_room that returns
\* Win leave it alone; at most 12 enter_room calls return InGame.
C4_RoomCounter ==
    /\ [](room_visited \in 0..12 /\ entered <= 12)
    /\ [][/\ (op' = "enter_room" /\ ret' = "InGame")
               => room_visited' = room_visited + 1
          /\ (op' \in {"play_card", "run_away"}
                \/ (op' = "enter_room" /\ ret' = "Win"))
               => room_visited' = room_visited
         ]_vars

\* Twelve enter_room calls have returned InGame.
C4_Witness ==
    op = "enter_room" /\ ret = "InGame" /\ entered = 12 /\ room_visited = 12

\* C5: life_points is within 0..20 in every reachable state.
C5_LifeRange == life_points \in 0..20

\* A hit greater than the life left was taken: life_points is 0, not below.
C5_Witness ==
    /\ FoughtMonster /\ ret = "Lose"
    /\ arg.rank > life_before /\ life_before > 0
    /\ life_points = 0

\* C6: a monster of rank R played with no weapon equipped and L life points
\* gives 0 and Lose if R >= L, and L - R and InGame otherwise.
C6_Barehanded ==
    [][(op' = "play_card" /\ IsMonster(arg') /\ weapon_equipped = <<>>)
         => IF arg'.rank >= life_points
            THEN life_points' = 0 /\ ret' = "Lose"
            ELSE life_points' = life_points - arg'.rank /\ ret' = "InGame"
      ]_vars

\* A barehanded hit of exactly the life left was lethal.
C6_Witness ==
    /\ FoughtMonster /\ weapon_equipped = <<>>
    /\ arg.rank = life_before
    /\ life_points = 0 /\ ret = "Lose"

\* C7: a monster of rank M played against an equipped weapon of rank W that
\* can slay it costs max(0, M - W): 0 and Lose if that is at least
\* life_points, life_points less that and InGame otherwise; the monster is
\* appended to the weapon's history either way.
C7_WeaponFight ==
    [][(/\ op' = "play_card" /\ IsMonster(arg')
        /\ Len(weapon_equipped) = 1
        /\ HistoryAllows(weapon_equipped[1].defeated_monsters, arg'.rank))
         => LET W == weapon_equipped[1].weapon.rank
                M == arg'.rank
                attack == IF M > W THEN M - W ELSE 0
            IN /\ IF attack >= life_points
                  THEN life_points' = 0 /\ ret' = "Lose"
                  ELSE life_points' = life_points - attack /\ ret' = "InGame"
               /\ weapon_equipped' =
                    <<[weapon |-> weapon_equipped[1].weapon,
                       defeated_monsters |->
                         Append(weapon_equipped[1].defeated_monsters, arg')]>>
      ]_vars

\* A monster stronger than the weapon was slain with it, as the second kill
\* of that weapon, and cost the difference of the ranks.
C7_Witness ==
    /\ FoughtMonster /\ ret = "InGame"
    /\ Len(weapon_equipped) = 1
    /\ Len(weapon_equipped[1].defeated_monsters) = 2
    /\ weapon_equipped[1].defeated_monsters[2] = arg
    /\ arg.rank > weapon_equipped[1].weapon.rank
    /\ life_points = life_before - (arg.rank - weapon_equipped[1].weapon.rank)

\* C8: the weapon slays the played monster, which shows as the monster
\* entering its history, if and only if the history was empty or its last
\* monster has a strictly greater rank.
C8_CanSlay ==
    [][(op' = "play_card" /\ IsMonster(arg') /\ Len(weapon_equipped) = 1)
         => LET before == weapon_equipped[1].defeated_monsters
                after == weapon_equipped'[1].defeated_monsters
            IN /\ Len(weapon_equipped') = 1
               /\ (after = Append(before, arg'))
                    <=> (before = <<>> \/ before[Len(before)].rank > arg'.rank)
               /\ after # Append(before, arg') => after = before
      ]_vars

\* A monster of the same rank as the last kill, of the other suit, was
\* played: it is not in the history and it hit with its full rank.
C8_Witness ==
    /\ FoughtMonster
    /\ Len(weapon_equipped) = 1
    /\ Len(weapon_equipped[1].defeated_monsters) = 1
    /\ weapon_equipped[1].defeated_monsters[1].rank = arg.rank
    /\ weapon_equipped[1].defeated_monsters[1].suit # arg.suit
    /\ arg.rank <= weapon_equipped[1].weapon.rank
    /\ life_points = life_before - arg.rank

\* C9: when the equipped weapon cannot slay the played monster the fight is
\* the barehanded one, and the weapon keeps its card and its history.
C9_Fallback ==
    [][(/\ op' = "play_card" /\ IsMonster(arg')
        /\ Len(weapon_equipped) = 1
        /\ ~HistoryAllows(weapon_equipped[1].defeated_monsters, arg'.rank))
         => /\ IF arg'.rank >= life_points
               THEN life_points' = 0 /\ ret' = "Lose"
               ELSE life_points' = life_points - arg'.rank /\ ret' = "InGame"
            /\ weapon_equipped' = weapon_equipped
      ]_vars

\* A monster stronger than the weapon's last kill was played: it hit with
\* its full rank and is not in the history.
C9_Witness ==
    /\ FoughtMonster /\ ret = "InGame"
    /\ Len(weapon_equipped) = 1
    /\ Len(weapon_equipped[1].defeated_monsters) = 1
    /\ weapon_equipped[1].defeated_monsters[1].rank < arg.rank
    /\ life_points = life_before - arg.rank

\* C10: the equipped weapon's history is strictly decreasing in rank, in
\* the order the monsters were added.
C10_HistoryDecreasing ==
    Len(weapon_equipped) = 1 =>
        LET h == weapon_equipped[1].defeated_monsters
        IN \A i \in 1..(Len(h) - 1) : h[i].rank > h[i + 1].rank

\* A weapon has slain two monsters.
C10_Witness ==
    /\ FoughtMonster
    /\ Len(weapon_equipped) = 1
    /\ Len(weapon_equipped[1].defeated_monsters) = 2
    /\ weapon_equipped[1].defeated_monsters[2] = arg

\* C11: a Hearts card of rank R played with L life points sets life_points
\* to min(20, L + R), returns InGame and leaves the weapon as it was.
C11_Heal ==
    [][(op' = "play_card" /\ arg'.suit = "Hearts")
         => /\ life_points' = (IF life_points + arg'.rank < 20
                               THEN life_points + arg'.rank
                               ELSE 20)
            /\ ret' = "InGame"
            /\ weapon_equipped' = weapon_equipped
      ]_vars

\* A wounded player holding a used weapon was healed by more than was
\* missing: life is 20 and the weapon is the one held before.
C11_Witness ==
    /\ op = "play_card" /\ arg.suit = "Hearts" /\ ret = "InGame"
    /\ life_before < 20 /\ life_before + arg.rank > 20
    /\ life_points = 20
    /\ Len(weapon_equipped) = 1
    /\ Len(weapon_equipped[1].defeated_monsters) = 1
    /\ weapon_equipped = weapon_before

\* C12: a Diamonds card played becomes the weapon, with an empty history,
\* whatever was equipped before; life_points is unchanged and the result is
\* InGame.
C12_Equip ==
    [][(op' = "play_card" /\ arg'.suit = "Diamonds")
         => /\ weapon_equipped' =
                 <<[weapon |-> arg', defeated_monsters |-> <<>>]>>
            /\ life_points' = life_points
            /\ ret' = "InGame"
      ]_vars

\* A weapon that had slain a monster was replaced by another Diamonds card,
\* which starts with no kill.
C12_Witness ==
    /\ op = "play_card" /\ arg.suit = "Diamonds" /\ ret = "InGame"
    /\ Len(weapon_before) = 1
    /\ Len(weapon_before[1].defeated_monsters) = 1
    /\ weapon_before[1].weapon # arg
    /\ weapon_equipped = <<[weapon |-> arg, defeated_monsters |-> <<>>]>>

\* C13: run_away on a hand of 4 cards with has_run_away false succeeds, puts
\* the 4 cards under the deck in hand order, empties the hand and sets
\* has_run_away to true.
C13_RunAway ==
    [][(op' = "run_away" /\ Len(room) = 4 /\ has_run_away = FALSE)
         => /\ ret' = "Ok"
            /\ deck' = deck \o room
            /\ Len(deck') = Len(deck) + 4
            /\ room' = <<>>
            /\ has_run_away' = TRUE
      ]_vars

\* C14: a run_away called right after a successful run_away fails with
\* AlreadyRanAway.
C14_SecondRunAway ==
    [][(op = "run_away" /\ ret = "Ok" /\ op' = "run_away")
         => ret' = "AlreadyRanAway"
      ]_vars

\* C15: run_away with has_run_away false and a hand that does not hold
\* exactly 4 cards, the empty hand of a new game included, fails with
\* RoomInProgress.
C15_NotANewRoom ==
    [][(op' = "run_away" /\ has_run_away = FALSE /\ Len(room) # 4)
         => ret' = "RoomInProgress"
      ]_vars

\* run_away was refused on a game that has entered no room.
C15_Witness ==
    /\ op = "run_away" /\ ret = "RoomInProgress"
    /\ entered = 0 /\ room_visited = 0 /\ room = <<>>

\* C16: once a card of the current room has been played, run_away fails
\* with RoomInProgress and returns no card to the deck.
C16_RoomInProgress ==
    [][(/\ op = "play_card" /\ entered > 0
        /\ \E i \in 1..Len(room) : room[i] = arg
        /\ op' = "run_away")
         => ret' = "RoomInProgress" /\ deck' = deck
      ]_vars

\* C17: a run_away that fails leaves the deck, the hand, life_points, the
\* weapon, room_visited and has_run_away as they were.
C17_FailedRunAway ==
    [][(op' = "run_away" /\ ret' \in {"AlreadyRanAway", "RoomInProgress"})
         => UNCHANGED <<deck, room, life_points, weapon_equipped,
                        room_visited, has_run_away>>
      ]_vars

\* run_away was refused in the middle of a game: rooms were entered and a
\* weapon is held.
C17_Witness ==
    /\ op = "run_away" /\ ret = "RoomInProgress"
    /\ entered > 0 /\ Len(weapon_equipped) = 1 /\ Len(deck) = 44

\* C18: no two rooms in a row are retreated from: between two successful
\* run_away calls a room is entered and not retreated from, so the retreats
\* are at most every other room entered.
C18_NoTwoInARow == 2 * retreats <= entered + 1

\* C19: has_run_away is true after a successful run_away and false after
\* the enter_room that follows it, as it is in a new game.
C19_Flag ==
    /\ (op = "run_away" /\ ret = "Ok") => has_run_away = TRUE
    /\ (op = "enter_room" /\ ret = "InGame") => has_run_away = FALSE
    /\ op = "new" => has_run_away = FALSE

\* C20: play_card of a card of the hand leaves the hand one card shorter,
\* without that card.
C20_CardLeavesHand ==
    [][(op' = "play_card" /\ \E i \in 1..Len(room) : room[i] = arg')
         => /\ Len(room') = Len(room) - 1
            /\ room' = SelectSeq(room, LAMBDA c : c # arg')
      ]_vars

\* The card is one of the hand.
InHand(card, hand) == \E i \in 1..Len(hand) : hand[i] = card

\* C21: play_card of a card that is not in the hand is not refused: it
\* returns InGame or Lose and has the effect of the card's suit, a heal to
\* min(20, L + R) for Hearts, a new weapon for Diamonds, a fight for a
\* monster (barehanded, it costs the monster's rank).
C21_NotInHandIsPlayed ==
    [][(op' = "play_card" /\ ~InHand(arg', room))
         => /\ ret' \in {"InGame", "Lose"}
            /\ arg'.suit = "Hearts"
                 => life_points' = (IF life_points + arg'.rank < 20
                                    THEN life_points + arg'.rank
                                    ELSE 20)
            /\ arg'.suit = "Diamonds"
                 => weapon_equipped' =
                      <<[weapon |-> arg', defeated_monsters |-> <<>>]>>
            /\ (IsMonster(arg') /\ weapon_equipped = <<>>)
                 => life_points' = (IF arg'.rank >= life_points
                                    THEN 0
                                    ELSE life_points - arg'.rank)
      ]_vars

\* C21 as the specification states it: play_card of a card that is not in
\* the hand fails, and changes neither life_points nor the weapon.
C21_NotInHandFails ==
    [][(op' = "play_card" /\ ~InHand(arg', room))
         => /\ ret' \notin {"InGame", "Lose"}
            /\ UNCHANGED <<life_points, weapon_equipped>>
      ]_vars

\* In a room of 4 cards a Hearts card that is not one of them was played
\* and healed a wounded player.
C21_Witness ==
    /\ op = "play_card" /\ ret = "InGame"
    /\ Len(room) = 4 /\ ~InHand(arg, room)
    /\ arg.suit = "Hearts"
    /\ life_points > life_before

\* C22: the hand holds 0, 1 or 4 cards in every state between operations.
C22_HandSize == Len(room) \in {0, 1, 4}

\* After a retreat and a second room, two cards have been played, the last
\* one from the hand: the hand holds 4 cards.
C22_Witness ==
    /\ op = "play_card" /\ plays = 2 /\ InHand(arg, room)
    /\ retreats = 1 /\ entered = 2
    /\ Len(room) = 4

\* C23: draw(n) with n <= len returns the first n cards of the deck in deck
\* order and leaves the others in their order, n fewer, none of them a card
\* drawn; draw(0) returns nothing and leaves the deck as it was; draw(n)
\* with n > len panics and returns no card.
C23_Draw ==
    [][op' = "draw"
         => LET n == count'
            IN /\ n <= Len(deck)
                    => /\ ret' = "Cards"
                       /\ Len(room') = n
                       /\ \A i \in 1..n : room'[i] = deck[i]
                       /\ Len(deck') = Len(deck) - n
                       /\ \A i \in 1..Len(deck') : deck'[i] = deck[n + i]
                       /\ \A i \in 1..n : ~InHand(room'[i], deck')
               /\ n = 0 => room' = <<>> /\ deck' = deck
               /\ n > Len(deck)
                    => ret' = "Panic" /\ deck' = deck /\ room' = room
      ]_vars

\* A draw asked for more cards than the deck had left, with cards left.
C23_Witness ==
    /\ op = "draw" /\ ret = "Panic"
    /\ Len(deck) > 0 /\ count > Len(deck)

\* C24: no card of the banned set is in the deck in any state; a deck just
\* built or just reset holds every card of the 52 that is not banned,
\* 52 - |B| cards in all, so each once; no operation changes the banned set.
C24_ReducedDeck ==
    /\ [](/\ \A i \in 1..Len(deck) : deck[i] \notin banned
          /\ op \in {"build", "reset"}
               => /\ Len(deck) = 52 - Cardinality(banned)
                  /\ {deck[i] : i \in 1..Len(deck)} = AllCards \ banned)
    /\ [][banned' = banned]_vars

\* The 44-card deck of the game was reset after cards had left it.
C24_Witness ==
    /\ op = "reset" /\ deck_ops = 3
    /\ Len(room) = 4
    /\ Cardinality(banned) = 8 /\ Len(deck) = 44
    /\ ~InHand(Card("Hearts", 13), deck)
    /\ InHand(room[1], deck)

\* How many times the card is in the sequence.
Occurrences(cards, card) ==
    Cardinality({i \in 1..Len(cards) : cards[i] = card})

\* C25: drawing n <= len cards and putting them under the deck leaves the
\* deck with the length and the cards it had, each as many times; the n
\* cards are its last n, in the order they were drawn, below the others.
C25_DrawThenBottom ==
    [][(op' = "draw_bottom" /\ ret' = "Unit")
         => LET n == count'
                len == Len(deck)
            IN /\ Len(deck') = len
               /\ \A c \in AllCards :
                    Occurrences(deck', c) = Occurrences(deck, c)
               /\ \A i \in 1..n : deck'[len - n + i] = deck[i]
               /\ \A i \in 1..(len - n) : deck'[i] = deck[n + i]
      ]_vars

\* The first 4 cards of the 44-card deck were drawn and put under it.
C25_Witness ==
    /\ op = "draw_bottom" /\ ret = "Unit" /\ count = 4
    /\ Len(deck) = 44
    /\ deck[1] = Card("Spades", 5)
    /\ deck[41] = Card("Spades", 1) /\ deck[44] = Card("Spades", 4)

\* C26: an enter_room that returns InGame leaves a hand of 4 cards: an empty
\* hand becomes the top 4 cards of the deck, a hand of 1 card keeps its card
\* first and gets the top 3 after it; the deck loses the cards drawn, from
\* the top, and no other.
C26_RoomFilled ==
    [][(op' = "enter_room" /\ ret' = "InGame")
         => LET n == 4 - Len(room)
            IN /\ Len(room') = 4
               /\ Len(room) \in {0, 1}
               /\ room' = room \o SubSeq(deck, 1, n)
               /\ deck' = SubSeq(deck, n + 1, Len(deck))
               /\ Len(deck') = Len(deck) - n
      ]_vars

\* After a retreat from the first room the second room was entered: the
\* hand is the next 4 cards and the first room is under the deck.
C26_Witness ==
    /\ op = "enter_room" /\ ret = "InGame"
    /\ retreats = 1 /\ entered = 2
    /\ room = <<Card("Spades", 5), Card("Spades", 6),
               Card("Spades", 7), Card("Spades", 8)>>
    /\ Len(deck) = 40 /\ deck[40] = Card("Spades", 4)

\* C27: enter_room with room_visited < 12 over a hand of 2, 3 or 4 cards is
\* a panic: it does not return InGame and draws nothing, the hand and the
\* deck are as they were.
C27_BadHand ==
    [][(op' = "enter_room" /\ room_visited < 12 /\ Len(room) \in {2, 3, 4})
         => /\ ret' = "Panic"
            /\ room' = room
            /\ deck' = deck
      ]_vars

\* enter_room was called twice in a row on a new game: the second call
\* panicked over the 4 cards of the first.
C27_Witness ==
    /\ op = "enter_room" /\ ret = "Panic"
    /\ entered = 1 /\ retreats = 0 /\ plays = 0
    /\ Len(room) = 4 /\ Len(deck) = 40

\* C28: a fight with the weapon that is lethal, the attack max(0, M - W)
\* being at least life_points, returns Lose with life_points 0 and the
\* monster added at the end of the weapon's history all the same.
C28_LethalKillRecorded ==
    [][(/\ op' = "play_card" /\ IsMonster(arg')
        /\ Len(weapon_equipped) = 1
        /\ HistoryAllows(weapon_equipped[1].defeated_monsters, arg'.rank)
        /\ (IF arg'.rank > weapon_equipped[1].weapon.rank
            THEN arg'.rank - weapon_equipped[1].weapon.rank
            ELSE 0) >= life_points)
         => /\ ret' = "Lose"
            /\ life_points' = 0
            /\ Len(weapon_equipped') = 1
            /\ LET after == weapon_equipped'[1].defeated_monsters
               IN /\ Len(after) = Len(weapon_equipped[1].defeated_monsters) + 1
                  /\ after[Len(after)] = arg'
      ]_vars

\* A weapon that had slain one monster was used on a weaker one whose
\* attack was lethal: the game is lost and the weapon has both kills.
C28_Witness ==
    /\ FoughtMonster /\ ret = "Lose" /\ life_points = 0
    /\ life_before > 0
    /\ Len(weapon_before) = 1 /\ Len(weapon_equipped) = 1
    /\ Len(weapon_before[1].defeated_monsters) = 1
    /\ arg.rank < weapon_before[1].defeated_monsters[1].rank
    /\ weapon_equipped[1].defeated_monsters =
         Append(weapon_before[1].defeated_monsters, arg)

\* C29: play_card returns Lose exactly when the card is a Spades or Clubs
\* card and life_points is 0 after the call; a Diamonds or Hearts card
\* returns InGame; play_card returns nothing but InGame and Lose.
C29_Lose ==
    [][op' = "play_card"
         => /\ ret' = "Lose" <=> (IsMonster(arg') /\ life_points' = 0)
            /\ arg'.suit \in {"Diamonds", "Hearts"} => ret' = "InGame"
            /\ ret' \in {"InGame", "Lose"}
      ]_vars

\* A Diamonds card was played after the game was lost: life_points is 0
\* and the result is InGame.
C29_Witness ==
    /\ op = "play_card" /\ arg.suit = "Diamonds" /\ ret = "InGame"
    /\ life_points = 0 /\ life_before = 0

\* C30: play_card of a monster leaves a weapon equipped if and only if one
\* was equipped before, with the same weapon card and the same history or
\* that history with the played monster added at its end.
C30_WeaponKept ==
    [][(op' = "play_card" /\ IsMonster(arg'))
         => /\ Len(weapon_equipped') = Len(weapon_equipped)
            /\ Len(weapon_equipped) = 1
                 => /\ weapon_equipped'[1].weapon = weapon_equipped[1].weapon
                    /\ weapon_equipped'[1].defeated_monsters
                         \in {weapon_equipped[1].defeated_monsters,
                              Append(weapon_equipped[1].defeated_monsters,
                                     arg')}
      ]_vars

\* Two monsters were fought with the same weapon, one after the other: it
\* is still equipped, with its card, and has both in its history.
C30_Witness ==
    /\ FoughtMonster /\ plays = 3
    /\ Len(weapon_before) = 1 /\ Len(weapon_equipped) = 1
    /\ weapon_equipped[1].weapon = weapon_before[1].weapon
    /\ weapon_before[1].defeated_monsters # <<>>
    /\ weapon_equipped[1].defeated_monsters # weapon_before[1].defeated_monsters
    /\ ret = "InGame"

\* The hit a monster of the played card deals: its rank less the weapon's,
\* not below 0, when the equipped weapon can slay it, its rank otherwise.
Hit(equipped, monster) ==
    IF /\ Len(equipped) = 1
       /\ HistoryAllows(equipped[1].defeated_monsters, monster.rank)
    THEN IF monster.rank > equipped[1].weapon.rank
         THEN monster.rank - equipped[1].weapon.rank
         ELSE 0
    ELSE monster.rank

\* C31: no life-point arithmetic leaves the range of a u8: a fight
\* subtracts its hit only when the hit is below life_points, so the
\* difference is the true one and is at least 1, and it sets 0 otherwise;
\* the sum of a Hearts card is at most 33, below 256, before the clamp.
C31_NoOverflow ==
    [][op' = "play_card"
         => /\ IsMonster(arg')
                 => LET hit == Hit(weapon_equipped, arg')
                    IN /\ hit \in 0..13
                       /\ ret' = "InGame"
                            => /\ hit < life_points
                               /\ life_points' = life_points - hit
                               /\ life_points' \in 1..20
                       /\ ret' = "Lose"
                            => hit >= life_points /\ life_points' = 0
            /\ arg'.suit = "Hearts"
                 => /\ life_points + arg'.rank <= 33
                    /\ life_points + arg'.rank < U8
      ]_vars

\* The largest sum: a Hearts King was played with 20 life points, after a
\* fight and a heal.
C31_Witness ==
    /\ op = "play_card" /\ arg = Card("Hearts", 13) /\ plays = 3
    /\ life_before = 20 /\ life_points = 20

\* C32: the deck and the hand together hold no card twice, so none in both,
\* and at most 44 cards; the deck gets shorter only in enter_room and longer
\* only in a run_away that returns Ok, each time by the cards the hand
\* gains or loses; play_card leaves the deck as it was.
C32_CardsConserved ==
    /\ [](/\ Cardinality({deck[i] : i \in 1..Len(deck)}
                         \cup {room[i] : i \in 1..Len(room)})
               = Len(deck) + Len(room)
          /\ \A i \in 1..Len(room) : ~InHand(room[i], deck)
          /\ Len(deck) + Len(room) <= 44)
    /\ [][/\ Len(deck') < Len(deck)
               => /\ op' = "enter_room"
                  /\ room' = room \o SubSeq(deck, 1, Len(deck) - Len(deck'))
          /\ Len(deck') > Len(deck)
               => /\ op' = "run_away" /\ ret' = "Ok"
                  /\ deck' = deck \o room /\ room' = <<>>
          /\ Len(deck') = Len(deck) => deck' = deck /\ room' = room
          /\ op' = "play_card" => deck' = deck
         ]_vars

\* Two cards of a room were played and the room was then retreated from:
\* all 44 cards are in the deck, the room last.
C32_Witness ==
    /\ op = "run_away" /\ ret = "Ok" /\ plays = 2
    /\ room = <<>> /\ Len(deck) = 44
    /\ deck[41] = Card("Spades", 1) /\ deck[1] = Card("Spades", 5)

\* C33: the deck never runs out: an enter_room with room_visited < 12 over
\* a hand of 0 or 1 cards finds the 4 or 3 cards it draws and returns
\* InGame, so the panic of draw is never reached.
C33_DeckNeverExhausted ==
    [][(op' = "enter_room" /\ room_visited < 12 /\ Len(room) \in {0, 1})
         => /\ Len(deck) >= 4 - Len(room)
            /\ ret' = "InGame"
            /\ Len(room') = 4
      ]_vars

\* The twelfth room was drawn after eleven retreats, from a full deck.
C33_Witness ==
    /\ op = "enter_room" /\ ret = "InGame"
    /\ room_visited = 12 /\ retreats = 11
    /\ Len(deck) = 40 /\ Len(room) = 4

====
